---- MODULE Spec2Model ----
(***************************************************************************)
(* Model of the performance-analysis and study-plan engine of              *)
(* genoa/app/services/canvas_service.py (class CanvasService).             *)
(*                                                                         *)
(* The LMS gateway is a snapshot of course data (gwGrade, gwAssignments,   *)
(* gwSubmissions, gwGroups).  Every gateway call of one request either     *)
(* returns the snapshot's data or raises; the outcome of each call is an   *)
(* input of the operation.  An operation runs as one action: it reads the  *)
(* snapshot, makes its calls in the code's order and leaves its returned   *)
(* dictionary in report / plan / assignmentResult and the calls it made    *)
(* in calls.                                                               *)
(*                                                                         *)
(* Python values: None is the empty tuple and a present value v is <<v>>;  *)
(* a dictionary is a function whose DOMAIN is its set of keys; a float     *)
(* quotient is the exact pair <<numerator, denominator>>; the message is   *)
(* the sequence of its sentences, each <<text, error text>>.               *)
(***************************************************************************)
EXTENDS Integers, Sequences, FiniteSets, TLC

VARIABLES gwGrade, gwAssignments, gwSubmissions, gwGroups,
          classScores, studentScore,
          op, report, plan, assignmentResult, calls, planCalls, clock,
          conversations, last_accessed, memClock

vars == <<gwGrade, gwAssignments, gwSubmissions, gwGroups,
          classScores, studentScore,
          op, report, plan, assignmentResult, calls, planCalls, clock,
          conversations, last_accessed, memClock>>

----------------------------------------------------------------------------
(* Bounds of the model *)

MaxItems == 2
MaxClassScores == 2
TicksPerDay == 2
max_conversations == 2
expiry_time == 1
MaxMessages == 1

----------------------------------------------------------------------------
(* Python values *)

None == <<>>
Some(v) == <<v>>
IsNone(x) == x = <<>>
Val(x) == x[1]

Put(d, k, v) == (k :> v) @@ d
Has(d, k) == k \in DOMAIN d
Get(d, k, default) == IF k \in DOMAIN d THEN d[k] ELSE default

Sentence(text, err) == <<text, err>>
AddMessage(d, text, err) == Put(d, "message", Append(d["message"], Sentence(text, err)))

Range(s) == {s[i] : i \in 1..Len(s)}

----------------------------------------------------------------------------
(* statistics.mean, median, stdev on a sequence of numbers.  A quotient is *)
(* kept exact as <<numerator, denominator>> with a positive denominator;   *)
(* stdev is represented by its square, the sample variance.                *)

RECURSIVE Sum(_)
Sum(xs) == IF xs = <<>> THEN 0 ELSE Head(xs) + Sum(Tail(xs))

RECURSIVE SumSq(_)
SumSq(xs) == IF xs = <<>> THEN 0 ELSE Head(xs) * Head(xs) + SumSq(Tail(xs))

mean(xs) == <<Sum(xs), Len(xs)>>

RatGT(a, b) == a[1] * b[2] > b[1] * a[2]
RatEq(a, b) == a[1] * b[2] = b[1] * a[2]
RatLE(a, b) == a[1] * b[2] <= b[1] * a[2]

RECURSIVE Insert(_, _)
Insert(x, sorted) ==
    IF sorted = <<>> THEN <<x>>
    ELSE IF x <= Head(sorted) THEN <<x>> \o sorted
    ELSE <<Head(sorted)>> \o Insert(x, Tail(sorted))

RECURSIVE Sorted(_)
Sorted(xs) == IF xs = <<>> THEN <<>> ELSE Insert(Head(xs), Sorted(Tail(xs)))

median(xs) ==
    LET s == Sorted(xs)
        n == Len(xs)
    IN  IF n % 2 = 1 THEN <<s[(n + 1) \div 2], 1>>
        ELSE <<s[n \div 2] + s[n \div 2 + 1], 2>>

stdevSquared(xs) ==
    LET n == Len(xs)
    IN  <<n * SumSq(xs) - Sum(xs) * Sum(xs), n * (n - 1)>>

(* mutant: a spread is computed from one score on *)
HasSpreadFromOne(xs) == Len(xs) > 0

HasSpread(xs) == Len(xs) > 1

----------------------------------------------------------------------------
(* The gateway's calls and what a failed call raises *)

ErrText(fetch) ==
    CASE fetch = "get_course" -> "Failed to fetch course details"
      [] fetch = "get_course_grades" -> "Failed to fetch course grades"
      [] fetch = "get_assignments" -> "Failed to fetch assignments"
      [] fetch = "get_student_submissions_for_course" -> "Error fetching student submissions"
      [] fetch = "get_assignment_groups" -> "Failed to fetch assignment groups"
      [] OTHER -> "Failed"

NaiveAwareError == "can't compare offset-naive and offset-aware datetimes"

Call(fetch, ok) == [fetch |-> fetch, ok |-> ok]

----------------------------------------------------------------------------
(* analyze_course_performance *)

CourseName == "Biology 101"

ErrorReport(err) ==
    [course_id |-> "course_id",
     message |-> <<Sentence("Error analyzing course performance", err)>>,
     error |-> TRUE]

InitialReport ==
    [course_id |-> "course_id",
     course_name |-> CourseName,
     current_grade |-> None,
     total_assignments |-> 0,
     graded_assignments |-> 0,
     message |-> <<Sentence("Basic course information retrieved successfully", "")>>]

Started(r) == [r |-> r, calls |-> <<>>, raised |-> None]
Called(st, fetch, ok) == [st EXCEPT !.calls = Append(@, Call(fetch, ok))]
Raise(st, err) == [st EXCEPT !.raised = Some(err)]

GradeStep(st, ok) ==
    LET c == Called(st, "get_course_grades", ok)
    IN  IF ok
        THEN [c EXCEPT !.r = AddMessage(Put(@, "current_grade", gwGrade),
                                 "Grade information retrieved successfully", "")]
        ELSE [c EXCEPT !.r = AddMessage(@, "Could not retrieve grade information",
                                 ErrText("get_course_grades"))]

AssignmentStep(st, ok) ==
    LET c == Called(st, "get_assignments", ok)
    IN  IF ok
        THEN [c EXCEPT !.r =
                 AddMessage(Put(Put(@, "total_assignments", Len(gwAssignments)),
                                "assignments", gwAssignments),
                            "Assignment information retrieved successfully", "")]
        ELSE [c EXCEPT !.r = AddMessage(@, "Could not retrieve assignment information",
                                 ErrText("get_assignments"))]

(* mutant: every submission counts as graded *)
IsGradedAny(s) == TRUE

IsGraded(s) == s.grade /= ""

GradedSubmissions(subs) == SelectSeq(subs, IsGraded)

RECURSIVE NumericScores(_)
NumericScores(subs) ==
    IF subs = <<>> THEN <<>>
    ELSE (IF IsNone(Head(subs).score) THEN <<>> ELSE <<Val(Head(subs).score)>>)
         \o NumericScores(Tail(subs))

ScoreStatistics(r, numeric) ==
    IF numeric = <<>> THEN r
    ELSE LET r1 == Put(Put(r, "average_score", mean(numeric)),
                       "median_score", median(numeric))
         IN  IF HasSpread(numeric)
             THEN Put(r1, "score_std_dev", stdevSquared(numeric))
             ELSE r1

SubmissionsOfGroup(graded, gid) ==
    SelectSeq(graded, LAMBDA s : s.gid = Some(gid))

(* mutant: one entry per group instead of one per group name *)
PutGroupStatAppends(stats, entry) == Append(stats, entry)

PutGroupStat(stats, entry) ==
    IF \E i \in 1..Len(stats) : stats[i].name = entry.name
    THEN [i \in 1..Len(stats) |->
             IF stats[i].name = entry.name THEN entry ELSE stats[i]]
    ELSE Append(stats, entry)

RECURSIVE GroupStatistics(_, _, _)
GroupStatistics(groups, graded, stats) ==
    IF groups = <<>> THEN stats
    ELSE LET g == Head(groups)
             gs == SubmissionsOfGroup(graded, g.id)
             scores == NumericScores(gs)
             next == IF gs /= <<>> /\ scores /= <<>>
                     THEN PutGroupStat(stats,
                              [name |-> g.name,
                               average_score |-> mean(scores),
                               submissions_count |-> Len(gs),
                               weight |-> g.group_weight])
                     ELSE stats
         IN  GroupStatistics(Tail(groups), graded, next)

(* mutant: a group at the overall average counts as a strength *)
IsStrengthOrEqual(average, overall) == ~RatGT(overall, average)

IsStrength(average, overall) == RatGT(average, overall)

RECURSIVE Classified(_, _, _)
Classified(stats, overall, strong) ==
    IF stats = <<>> THEN <<>>
    ELSE (IF IsStrength(Head(stats).average_score, overall) = strong
          THEN <<Head(stats).name>> ELSE <<>>)
         \o Classified(Tail(stats), overall, strong)

Strengths(stats, numeric) ==
    IF numeric = <<>> THEN <<>> ELSE Classified(stats, mean(numeric), TRUE)

(* mutant: a group at the pooled average is not a weakness *)
WeaknessesBelow(stats, numeric) ==
    IF numeric = <<>> THEN <<>>
    ELSE [i \in 1..Len(SelectSeq(stats, LAMBDA g :
                            RatGT(mean(numeric), g.average_score))) |->
             SelectSeq(stats, LAMBDA g :
                 RatGT(mean(numeric), g.average_score))[i].name]

Weaknesses(stats, numeric) ==
    IF numeric = <<>> THEN <<>> ELSE Classified(stats, mean(numeric), FALSE)

DetailedAnalysis(st, graded, numeric, ok) ==
    LET c == Called(st, "get_assignment_groups", ok)
        stats == GroupStatistics(gwGroups, graded, <<>>)
    IN  IF ok
        THEN [c EXCEPT !.r =
                 AddMessage(
                     Put(Put(Put(@, "group_statistics", stats),
                             "strengths", Strengths(stats, numeric)),
                         "weaknesses", Weaknesses(stats, numeric)),
                     "Detailed performance analysis completed", "")]
        ELSE [c EXCEPT !.r = AddMessage(@, "Could not complete detailed analysis",
                                 ErrText("get_assignment_groups"))]

HasDue(a) == ~IsNone(a.due_at)
DueTime(a) == Val(a.due_at).t
DueAware(a) == Val(a.due_at).aware

ComparisonRaises(assignments) ==
    \E i \in 1..Len(assignments) : HasDue(assignments[i]) /\ DueAware(assignments[i])

(* mutant: an assignment due exactly now counts as upcoming *)
IsAfterOrAt(a, now) == DueTime(a) >= now

IsAfter(a, now) == DueTime(a) > now

UpcomingCount(assignments, now) ==
    Cardinality({i \in 1..Len(assignments) :
                    HasDue(assignments[i]) /\ IsAfter(assignments[i], now)})

BasicAnalysis(st, now) ==
    IF ~Has(st.r, "assignments") THEN st
    ELSE IF ComparisonRaises(st.r["assignments"]) THEN Raise(st, NaiveAwareError)
    ELSE LET n == UpcomingCount(st.r["assignments"], now)
             r1 == Put(st.r, "upcoming_assignments_count", n)
         IN  [st EXCEPT !.r = IF n > 0
                              THEN AddMessage(r1, "Found upcoming assignments", "")
                              ELSE r1]

SubmissionStep(st, ok, groupsOk, now) ==
    LET c == Called(st, "get_student_submissions_for_course", ok)
        graded == GradedSubmissions(gwSubmissions)
        numeric == NumericScores(graded)
        c1 == [c EXCEPT !.r =
                  AddMessage(Put(@, "graded_assignments", Len(graded)),
                             "Submission information retrieved successfully", "")]
    IN  IF ok
        THEN IF graded /= <<>>
             THEN DetailedAnalysis([c1 EXCEPT !.r = ScoreStatistics(@, numeric)],
                                   graded, numeric, groupsOk)
             ELSE [c1 EXCEPT !.r =
                      AddMessage(@, "No graded assignments found for detailed analysis",
                                 "")]
        ELSE BasicAnalysis(
                 [c EXCEPT !.r = AddMessage(@, "Could not retrieve submission information",
                                     ErrText("get_student_submissions_for_course"))],
                 now)

(* mutant: a failed get_course is logged and the operation goes on *)
CourseStepContinues(st, ok) == Called(st, "get_course", ok)

CourseStep(st, ok) ==
    IF ok THEN Called(st, "get_course", TRUE)
    ELSE Raise(Called(st, "get_course", FALSE), ErrText("get_course"))

(* An exception that reaches the caller *)
Exception(err) == [exception |-> err]

(* mutant: without the outer handler the exception leaves the operation *)
ReturnedUnhandled(s) == [r |-> s.r, calls |-> s.calls, raised |-> s.raised]

Returned(s) ==
    [r |-> IF IsNone(s.raised) THEN s.r ELSE ErrorReport(Val(s.raised)),
     calls |-> s.calls,
     raised |-> None]

SecondarySteps(c, out, now) ==
    IF ~IsNone(c.raised) THEN c
    ELSE SubmissionStep(
             AssignmentStep(GradeStep(c, out.grades), out.assignments),
             out.submissions, out.groups, now)

(* The operation and the calls it made: [r |-> the returned dictionary,    *)
(* calls |-> the gateway calls in order].  out gives the outcome of each   *)
(* call; now is the clock when the due dates are compared.                 *)
analyze_course_performance(out, now) ==
    Returned(SecondarySteps(CourseStep(Started(InitialReport), out.course), out, now))

AttemptsGroups(out) ==
    out.course /\ out.submissions /\ GradedSubmissions(gwSubmissions) /= <<>>

----------------------------------------------------------------------------
(* analyze_assignment_performance *)

RECURSIVE PresentScores(_)
PresentScores(scores) ==
    IF scores = <<>> THEN <<>>
    ELSE (IF IsNone(Head(scores)) THEN <<>> ELSE <<Val(Head(scores))>>)
         \o PresentScores(Tail(scores))

(* mutant: class scores equal to the student's are counted as below *)
BelowCountOrEqual(scores, x) == Cardinality({i \in 1..Len(scores) : scores[i] <= x})

BelowCount(scores, x) == Cardinality({i \in 1..Len(scores) : scores[i] < x})

Percentile(scores, student) ==
    IF ~IsNone(student) /\ scores /= <<>>
    THEN Some(<<BelowCount(scores, Val(student)) * 100, Len(scores)>>)
    ELSE None

ClassStdDev(scores) ==
    IF HasSpread(scores) THEN Some(stdevSquared(scores)) ELSE None

analyze_assignment_performance(ok) ==
    IF ~ok THEN [raised |-> TRUE]
    ELSE LET scores == PresentScores(classScores)
         IN  [raised |-> FALSE,
              assignment_id |-> "assignment_id",
              student_score |-> studentScore,
              class_average |-> IF scores /= <<>> THEN Some(mean(scores)) ELSE None,
              class_median |-> IF scores /= <<>> THEN Some(median(scores)) ELSE None,
              class_std_dev |-> ClassStdDev(scores),
              percentile |-> Percentile(scores, studentScore)]

----------------------------------------------------------------------------
(* get_upcoming_assignments *)

InWindow(a, now, days) ==
    now <= DueTime(a) /\ DueTime(a) <= now + days * TicksPerDay

get_upcoming_assignments(ok, now, days) ==
    IF ~ok THEN [raised |-> Some(ErrText("get_assignments")), value |-> <<>>]
    ELSE IF ComparisonRaises(gwAssignments)
    THEN [raised |-> Some(NaiveAwareError), value |-> <<>>]
    ELSE [raised |-> None,
          value |-> SelectSeq(gwAssignments,
                       LAMBDA a : HasDue(a) /\ InWindow(a, now, days))]

----------------------------------------------------------------------------
(* generate_study_plan *)

ErrorPlan(err) ==
    [course_id |-> "course_id",
     course_name |-> "Unknown Course",
     message |-> <<Sentence("Error generating study plan", err)>>,
     error |-> TRUE,
     recommendations |->
        <<[type |-> "error_recovery",
           description |-> <<"Review your course syllabus and upcoming assignments">>,
           priority |-> "High"],
          [type |-> "error_recovery",
           description |-> <<"Meet with your instructor during office hours to discuss your progress">>,
           priority |-> "High"]>>]

InitialPlan ==
    [course_id |-> "course_id",
     course_name |-> CourseName,
     current_grade |-> None,
     strengths |-> <<>>,
     weaknesses |-> <<>>,
     upcoming_assignments |-> <<>>,
     focus_areas |-> <<>>,
     recommendations |-> <<>>,
     message |-> <<Sentence("Basic course information retrieved successfully", "")>>]

(* mutant: a performance result with the error flag counts as a failure *)
PerformanceStepChecksError(st, analysis) ==
    IF ~IsNone(analysis.raised) \/ Has(analysis.r, "error")
    THEN [st EXCEPT !.r = AddMessage(@, "Could not analyze performance", "")]
    ELSE [st EXCEPT !.r =
             AddMessage(
                 Put(Put(Put(@, "current_grade", Get(analysis.r, "current_grade", None)),
                         "strengths", Get(analysis.r, "strengths", <<>>)),
                     "weaknesses", Get(analysis.r, "weaknesses", <<>>)),
                 "Performance analysis completed", "")]

(* analysis is what the call of analyze_course_performance gave: the       *)
(* returned dictionary r, or the exception raised                          *)
PerformanceStep(st, analysis) ==
    IF ~IsNone(analysis.raised)
    THEN [st EXCEPT !.r = AddMessage(@, "Could not analyze performance",
                               Val(analysis.raised))]
    ELSE [st EXCEPT !.r =
             AddMessage(
                 Put(Put(Put(@, "current_grade", Get(analysis.r, "current_grade", None)),
                         "strengths", Get(analysis.r, "strengths", <<>>)),
                     "weaknesses", Get(analysis.r, "weaknesses", <<>>)),
                 "Performance analysis completed", "")]

GroupName(groups, gid) ==
    IF ~IsNone(gid) /\ \E i \in 1..Len(groups) : groups[i].id = Val(gid)
    THEN groups[CHOOSE i \in 1..Len(groups) :
                   /\ groups[i].id = Val(gid)
                   /\ \A j \in (i + 1)..Len(groups) : groups[j].id /= Val(gid)].name
    ELSE "Other"

GroupWeight(groups, gid) ==
    IF ~IsNone(gid) /\ \E i \in 1..Len(groups) : groups[i].id = Val(gid)
    THEN groups[CHOOSE i \in 1..Len(groups) :
                   /\ groups[i].id = Val(gid)
                   /\ \A j \in 1..(i - 1) : groups[j].id /= Val(gid)].group_weight
    ELSE 0

Max(a, b) == IF a >= b THEN a ELSE b

(* mutant: the days until a due date that has passed are negative *)
DaysUntilDueSigned(a, now) == (DueTime(a) - now) \div TicksPerDay

DaysUntilDue(a, now) == Max(0, (DueTime(a) - now) \div TicksPerDay)

Infinity == <<1, 0>>

(* mutant: the days are multiplied by the weight term instead of divided *)
PriorityTimesWeight(a, weight, now) ==
    IF HasDue(a) THEN <<DaysUntilDue(a, now) * (10 * weight + 1), 10>>
    ELSE Infinity

Priority(a, weight, now) ==
    IF HasDue(a) THEN <<10 * DaysUntilDue(a, now), 10 * weight + 1>>
    ELSE Infinity

Prioritized(a, groups, now) ==
    [id |-> a.id,
     name |-> a.id,
     due_date |-> a.due_at,
     group |-> GroupName(groups, a.gid),
     weight |-> GroupWeight(groups, a.gid),
     priority |-> Priority(a, GroupWeight(groups, a.gid), now)]

PriorityLE(x, y) == RatLE(x.priority, y.priority)

RECURSIVE InsertAfterEquals(_, _)
InsertAfterEquals(x, sorted) ==
    IF sorted = <<>> THEN <<x>>
    ELSE IF PriorityLE(Head(sorted), x)
    THEN <<Head(sorted)>> \o InsertAfterEquals(x, Tail(sorted))
    ELSE <<x>> \o sorted

RECURSIVE SortByPriority(_, _)
SortByPriority(xs, sorted) ==
    IF xs = <<>> THEN sorted
    ELSE SortByPriority(Tail(xs), InsertAfterEquals(Head(xs), sorted))

PrioritizedAssignments(upcoming, groups, now) ==
    SortByPriority([i \in 1..Len(upcoming) |-> Prioritized(upcoming[i], groups, now)],
                   <<>>)

(* mutant: assignments without a group id are counted under "Other" *)
UpcomingInGroupByLabel(upcoming, groups, name) ==
    Cardinality({i \in 1..Len(upcoming) : GroupName(groups, upcoming[i].gid) = name})

UpcomingInGroup(upcoming, groups, name) ==
    Cardinality({i \in 1..Len(upcoming) :
                    /\ ~IsNone(upcoming[i].gid)
                    /\ GroupName(groups, upcoming[i].gid) = name})

FocusArea(weakness, upcoming, groups) ==
    LET n == UpcomingInGroup(upcoming, groups, weakness)
    IN  [area |-> weakness,
         reason |-> "below course average",
         upcoming_assignments |-> n,
         priority |-> IF n > 0 THEN "High" ELSE "Medium"]

FocusAreas(weaknesses, upcoming, groups) ==
    [i \in 1..Len(weaknesses) |-> FocusArea(weaknesses[i], upcoming, groups)]

SimpleAssignment(a) == [id |-> a.id, name |-> a.id, due_date |-> a.due_at]

SimpleKey(x) == IF Has(x, "due_at") THEN x["due_at"] ELSE None

SimpleKeyLE(k1, k2) ==
    IF IsNone(k2) THEN TRUE
    ELSE IF IsNone(k1) THEN FALSE
    ELSE Val(k1).t <= Val(k2).t

RECURSIVE InsertByKey(_, _)
InsertByKey(x, sorted) ==
    IF sorted = <<>> THEN <<x>>
    ELSE IF SimpleKeyLE(SimpleKey(Head(sorted)), SimpleKey(x))
    THEN <<Head(sorted)>> \o InsertByKey(x, Tail(sorted))
    ELSE <<x>> \o sorted

RECURSIVE SortByKey(_, _)
SortByKey(xs, sorted) ==
    IF xs = <<>> THEN sorted
    ELSE SortByKey(Tail(xs), InsertByKey(Head(xs), sorted))

(* mutant: the fallback list is built without the first upcoming assignment *)
SimpleAssignmentsDropsFirst(upcoming) ==
    IF upcoming = <<>> THEN <<>>
    ELSE SortByKey([i \in 1..(Len(upcoming) - 1) |-> SimpleAssignment(upcoming[i + 1])],
                   <<>>)

SimpleAssignments(upcoming) ==
    SortByKey([i \in 1..Len(upcoming) |-> SimpleAssignment(upcoming[i])], <<>>)

PrioritizationStep(st, upcoming, ok, now) ==
    LET c == Called(st, "get_assignment_groups", ok)
    IN  IF ok
        THEN [c EXCEPT !.r =
                 AddMessage(
                     Put(Put(@, "upcoming_assignments",
                             PrioritizedAssignments(upcoming, gwGroups, now)),
                         "focus_areas",
                         FocusAreas(st.r["weaknesses"], upcoming, gwGroups)),
                     "Assignment prioritization completed", "")]
        ELSE [c EXCEPT !.r =
                 Put(AddMessage(@, "Could not prioritize assignments",
                                ErrText("get_assignment_groups")),
                     "upcoming_assignments", SimpleAssignments(upcoming))]

UpcomingStep(st, ok, groupsOk, now1, now2, days) ==
    LET c == Called(st, "get_assignments", ok)
        up == get_upcoming_assignments(ok, now1, days)
    IN  IF IsNone(up.raised)
        THEN PrioritizationStep(c, up.value, groupsOk, now2)
        ELSE [c EXCEPT !.r = AddMessage(@, "Could not retrieve upcoming assignments",
                                 Val(up.raised))]

AssignmentPrep(top) ==
    [type |-> "assignment_prep",
     description |-> <<"Focus on preparing for", top.name, top.due_date>>,
     priority |-> "High"]

(* mutant: every skill recommendation has priority Medium *)
SkillImprovementMedium(area) ==
    [type |-> "skill_improvement",
     description |-> <<"Improve skills in", area.area>>,
     priority |-> "Medium"]

SkillImprovement(area) ==
    [type |-> "skill_improvement",
     description |-> <<"Improve skills in", area.area>>,
     priority |-> area.priority]

(* mutant: no generic recommendations *)
GeneralRecommendationsNone(hasGrade) == <<>>

GeneralRecommendations(hasGrade) ==
    IF hasGrade
    THEN <<[type |-> "general_improvement",
            description |-> <<"Review your current course materials and notes">>,
            priority |-> "Medium"],
           [type |-> "general_improvement",
            description |-> <<"Meet with your instructor during office hours to discuss improvement strategies">>,
            priority |-> "High"]>>
    ELSE <<[type |-> "general_improvement",
            description |-> <<"Review your course syllabus and upcoming assignments">>,
            priority |-> "High"],
           [type |-> "general_improvement",
            description |-> <<"Create a study schedule for this course">>,
            priority |-> "Medium"]>>

(* mutant: a missing grade counts as a grade *)
TruthyAlways(grade) == TRUE

Truthy(grade) == ~IsNone(grade) /\ Val(grade) /= ""

Recommendations(p) ==
    LET specific ==
            (IF p["upcoming_assignments"] /= <<>>
             THEN <<AssignmentPrep(p["upcoming_assignments"][1])>> ELSE <<>>)
            \o [i \in 1..Len(p["focus_areas"]) |-> SkillImprovement(p["focus_areas"][i])]
    IN  IF specific /= <<>> THEN specific
        ELSE GeneralRecommendations(Truthy(p["current_grade"]))

RecommendationStep(st) ==
    [st EXCEPT !.r = AddMessage(Put(@, "recommendations", Recommendations(st.r)),
                         "Study plan generated successfully", "")]

PlanSteps(c, performance, out, now1, now2, days) ==
    IF ~IsNone(c.raised)
    THEN [r |-> ErrorPlan(Val(c.raised)), calls |-> c.calls,
          performance |-> None, analysisCalls |-> <<>>]
    ELSE [RecommendationStep(
              UpcomingStep(PerformanceStep(c, performance),
                           out.upcoming, out.planGroups, now1, now2, days))
          EXCEPT !.raised = None] @@
         [performance |-> IF IsNone(performance.raised) THEN Some(performance.r)
                         ELSE Some(Exception(Val(performance.raised))),
          analysisCalls |-> performance.calls]

(* The operation, its own gateway calls and the performance report it      *)
(* obtained: [r, calls, performance, analysisCalls].                       *)
generate_study_plan(out, nowA, now1, now2, days) ==
    PlanSteps(CourseStep(Started(InitialPlan), out.planCourse),
              analyze_course_performance(out, nowA), out, now1, now2, days)

----------------------------------------------------------------------------
(* The gateway snapshots the operations are run on.  Canvas returns one    *)
(* submission record per assignment of the course, carrying the            *)
(* assignment's group id; a grade of "" stands for a null or empty grade.  *)

Seqs(S, n) == UNION {[1..k -> S] : k \in 0..n}

GroupIds == {1, 2}
GroupNames == {"Labs", "Exams"}
GroupWeights == {0, 50}
Grades == {None, Some("B")}
DaysAheadChoices == {2}

Group(id, name, weight) == [id |-> id, name |-> name, group_weight |-> weight]

GroupLists(groupSet) ==
    {gs \in Seqs(groupSet, Cardinality(GroupIds)) :
        \A i, j \in 1..Len(gs) : i < j => gs[i].id < gs[j].id}

NamedGroupLists ==
    GroupLists({Group(i, n, 50 * (i - 1)) : i \in GroupIds, n \in GroupNames})

WeightedGroupLists ==
    GroupLists({Group(1, "Labs", w) : w \in GroupWeights}
               \cup {Group(2, "Exams", w) : w \in GroupWeights})

Item(due, gid, mark) == [due_at |-> due, gid |-> gid, grade |-> mark[1], score |-> mark[2]]

Due(t, aware) == Some([t |-> t, aware |-> aware])

Snapshot(grade, items, groups, scores, student) ==
    [grade |-> grade,
     assignments |-> [i \in 1..Len(items) |->
                         [id |-> i, due_at |-> items[i].due_at, gid |-> items[i].gid]],
     submissions |-> [i \in 1..Len(items) |->
                         [grade |-> items[i].grade, score |-> items[i].score,
                          gid |-> items[i].gid]],
     groups |-> groups,
     classScores |-> scores,
     studentScore |-> student]

ScoreGids == <<None, Some(1), Some(2)>>
ScoreMarks == <<<<"", None>>, <<"A", None>>, <<"A", Some(60)>>, <<"A", Some(90)>>,
               <<"", Some(90)>>>>

ScoreItem(code) ==
    Item(None, ScoreGids[(code \div Len(ScoreMarks)) + 1],
         ScoreMarks[(code % Len(ScoreMarks)) + 1])

ScoreItemLists ==
    {[i \in 1..Len(codes) |-> ScoreItem(codes[i])] :
        codes \in {c \in Seqs(0..(Len(ScoreGids) * Len(ScoreMarks) - 1), MaxItems) :
                      \A i \in 1..(Len(c) - 1) : c[i] <= c[i + 1]}}

DueItems ==
    {Item(d, None, <<"", None>>) :
        d \in {None, Due(0 - 1, FALSE), Due(1, FALSE), Due(2 * TicksPerDay, FALSE),
               Due(2 * TicksPerDay, TRUE)}}

WeightedItems ==
    {Item(d, g, <<"", None>>) :
        d \in {Due(0, FALSE), Due(2 * TicksPerDay, FALSE)},
        g \in {None} \cup {Some(i) : i \in GroupIds}}

(* graded submissions of assignments that are still due, in two groups *)
GradedDueItems ==
    {Item(d, Some(g), <<"A", Some(x)>>) :
        d \in {Due(0, FALSE), Due(1, FALSE)}, g \in GroupIds, x \in {60, 90}}

(* a group named "Other", with assignments of that group, of no group and *)
(* of a group that is not fetched                                          *)
OtherItems ==
    {Item(Due(1, FALSE), Some(1), <<"A", Some(60)>>),
     Item(Due(1, FALSE), None, <<"", None>>),
     Item(Due(1, FALSE), Some(2), <<"", None>>)}

ScoreSnapshots ==
    {Snapshot(Some("B"), items, groups, <<>>, None) :
        items \in ScoreItemLists, groups \in NamedGroupLists}

DueSnapshots ==
    {Snapshot(g, items, <<>>, <<>>, None) :
        g \in Grades, items \in Seqs(DueItems, MaxItems)}

WeightedSnapshots ==
    {Snapshot(None, items, groups, <<>>, None) :
        items \in Seqs(WeightedItems, MaxItems), groups \in WeightedGroupLists}

GradedDueSnapshots ==
    {Snapshot(Some("B"), items, <<Group(1, "Labs", 0), Group(2, "Exams", 50)>>,
              <<>>, None) :
        items \in Seqs(GradedDueItems, MaxItems)}

OtherSnapshots ==
    {Snapshot(None, items, <<Group(1, "Other", 50)>>, <<>>, None) :
        items \in Seqs(OtherItems, MaxItems)}

ClassSnapshots ==
    {Snapshot(None, <<>>, <<>>, scores, student) :
        scores \in Seqs({None, Some(60), Some(90)}, MaxClassScores),
        student \in {None, Some(60), Some(90)}}

ScenarioA ==
    Snapshot(Some("B"),
             <<Item(None, Some(1), <<"A", Some(70)>>),
               Item(None, Some(1), <<"A", Some(80)>>),
               Item(None, Some(1), <<"A", Some(90)>>),
               Item(None, Some(2), <<"A", Some(60)>>)>>,
             <<Group(1, "Labs", 30), Group(2, "Exams", 70)>>, <<>>, None)

Snapshots ==
    ScoreSnapshots \cup DueSnapshots \cup WeightedSnapshots \cup GradedDueSnapshots
    \cup OtherSnapshots \cup ClassSnapshots
    \cup {ScenarioA}

----------------------------------------------------------------------------
(* MemoryService: the two dictionaries, in insertion order *)

Entry(id, v) == [id |-> id, v |-> v]

DictHas(d, id) == \E i \in 1..Len(d) : d[i].id = id

DictSet(d, id, v) ==
    IF DictHas(d, id)
    THEN [i \in 1..Len(d) |-> IF d[i].id = id THEN Entry(id, v) ELSE d[i]]
    ELSE Append(d, Entry(id, v))

DictDel(d, id) == SelectSeq(d, LAMBDA e : e.id /= id)

Keys(d) == [i \in 1..Len(d) |-> d[i].id]

MemoryStarts ==
    /\ conversations = <<>>
    /\ last_accessed = <<>>
    /\ memClock = 0

Stored == [conversations |-> conversations, last_accessed |-> last_accessed]

delete_conversation(st, id) ==
    [conversations |-> DictDel(st.conversations, id),
     last_accessed |-> DictDel(st.last_accessed, id)]

RECURSIVE DeleteEach(_, _)
DeleteEach(st, ids) ==
    IF ids = <<>> THEN st
    ELSE DeleteEach(delete_conversation(st, Head(ids)), Tail(ids))

ExpiredIds(st, now) ==
    Keys(SelectSeq(st.last_accessed, LAMBDA e : now - e.v > expiry_time))

RECURSIVE InsertByAccess(_, _)
InsertByAccess(x, sorted) ==
    IF sorted = <<>> THEN <<x>>
    ELSE IF Head(sorted).v <= x.v
    THEN <<Head(sorted)>> \o InsertByAccess(x, Tail(sorted))
    ELSE <<x>> \o sorted

RECURSIVE SortByAccess(_, _)
SortByAccess(d, sorted) ==
    IF d = <<>> THEN sorted
    ELSE SortByAccess(Tail(d), InsertByAccess(Head(d), sorted))

Oldest(st) ==
    LET sorted == Keys(SortByAccess(st.last_accessed, <<>>))
        excess == Len(st.conversations) - max_conversations
    IN  SubSeq(sorted, 1, IF excess < Len(sorted) THEN excess ELSE Len(sorted))

TooMany(st) == Len(st.conversations) > max_conversations

cleanup_expired(st, now) ==
    LET live == DeleteEach(st, ExpiredIds(st, now))
    IN  IF TooMany(live) THEN DeleteEach(live, Oldest(live)) ELSE live

(* cid of None stands for a missing id or "new_conversation": uuid is the  *)
(* id generated then.  now1 is the clock of the cleanup, now2 that of the  *)
(* access.                                                                 *)
get_memory(st, cid, uuid, now1, now2) ==
    LET live == cleanup_expired(st, now1)
        id == IF IsNone(cid) THEN uuid ELSE Val(cid)
    IN  [conversations |->
            IF DictHas(live.conversations, id) THEN live.conversations
            ELSE Append(live.conversations, Entry(id, <<>>)),
         last_accessed |-> DictSet(live.last_accessed, id, now2),
         id |-> id]

Messages(st, id) ==
    st.conversations[CHOOSE i \in 1..Len(st.conversations) :
                        st.conversations[i].id = id].v

add_message(st, cid, uuid, now1, now2, type) ==
    LET got == get_memory(st, cid, uuid, now1, now2)
    IN  [got EXCEPT !.conversations =
            DictSet(@, got.id, Append(Messages(got, got.id), type))]

clear_memory(st, cid, uuid, now1, now2) ==
    IF ~IsNone(cid) /\ DictHas(st.conversations, Val(cid))
    THEN [st EXCEPT !.conversations = DictSet(@, Val(cid), <<>>)]
    ELSE get_memory(st, cid, uuid, now1, now2)

(* memory is the position of a stored conversation's memory object, or     *)
(* None for a memory object that is not stored                             *)
get_conversation_id(st, memory, uuid, now) ==
    IF ~IsNone(memory) THEN st
    ELSE [conversations |-> Append(st.conversations, Entry(uuid, <<>>)),
          last_accessed |-> DictSet(st.last_accessed, uuid, now)]

----------------------------------------------------------------------------
(* The state machine: one request on one snapshot *)

AllOutcomes ==
    [planCourse : BOOLEAN, course : BOOLEAN, grades : BOOLEAN, assignments : BOOLEAN,
     submissions : BOOLEAN, groups : BOOLEAN, upcoming : BOOLEAN, planGroups : BOOLEAN]

AttemptsPlanGroups(out) == out.upcoming /\ ~ComparisonRaises(gwAssignments)

SomeDue == \E i \in 1..Len(gwAssignments) : HasDue(gwAssignments[i])

(* A clock reading is drawn where datetime.now() is compared with a due date *)
ReadsClock(out) == out.course /\ ~out.submissions /\ out.assignments /\ SomeDue

ReadsWindowClock(out) == out.upcoming /\ SomeDue

ReadsPlanClock(out, now1, days) ==
    /\ AttemptsPlanGroups(out) /\ out.planGroups
    /\ get_upcoming_assignments(TRUE, now1, days).value /= <<>>

(* An outcome is drawn only for a call that is made: the outcome of a call *)
(* that is not made is left TRUE.                                          *)
AnalysisOutcomesOf(outs) ==
    {o \in outs :
        /\ ~o.course => o.grades /\ o.assignments /\ o.submissions
        /\ ~AttemptsGroups(o) => o.groups}

AnalysisOutcomes ==
    AnalysisOutcomesOf({o \in AllOutcomes : o.planCourse /\ o.upcoming /\ o.planGroups})

PlanOutcomes ==
    {o \in AnalysisOutcomesOf(AllOutcomes) :
        /\ ~o.planCourse => o.course /\ o.upcoming
        /\ ~AttemptsPlanGroups(o) => o.planGroups}

Elapsed == {0, 1}

NoReadings == [analysis |-> None, window |-> None, priority |-> None, days |-> None]

Readings(reads, from) == IF reads THEN {t \in Elapsed : t >= from} ELSE {from}

Init ==
    /\ \E s \in Snapshots :
          /\ gwGrade = s.grade
          /\ gwAssignments = s.assignments
          /\ gwSubmissions = s.submissions
          /\ gwGroups = s.groups
          /\ classScores = s.classScores
          /\ studentScore = s.studentScore
    /\ op = "idle"
    /\ report = None
    /\ plan = None
    /\ assignmentResult = None
    /\ calls = <<>>
    /\ planCalls = <<>>
    /\ clock = NoReadings
    /\ MemoryStarts

AnalysisReturns(done) ==
    /\ report' = IF IsNone(done.raised) THEN Some(done.r)
                 ELSE Some(Exception(Val(done.raised)))
    /\ calls' = done.calls

AnalyzeCoursePerformance ==
    /\ op = "idle"
    /\ \E out \in AnalysisOutcomes :
          \E now \in Readings(ReadsClock(out), 0) :
             /\ AnalysisReturns(analyze_course_performance(out, now))
             /\ clock' = [NoReadings EXCEPT
                             !.analysis = IF ReadsClock(out) THEN Some(now) ELSE None]
    /\ op' = "analyze_course_performance"
    /\ UNCHANGED <<conversations, last_accessed, memClock,
                   gwGrade, gwAssignments, gwSubmissions, gwGroups,
                   classScores, studentScore, plan, assignmentResult, planCalls>>

AnalyzeAssignmentPerformance ==
    /\ op = "idle"
    /\ \E ok \in BOOLEAN :
          /\ assignmentResult' = Some(analyze_assignment_performance(ok))
          /\ calls' = <<Call("get_assignment", ok)>>
    /\ op' = "analyze_assignment_performance"
    /\ UNCHANGED <<conversations, last_accessed, memClock,
                   gwGrade, gwAssignments, gwSubmissions, gwGroups,
                   classScores, studentScore, report, plan, planCalls, clock>>

PlanReturns(done) ==
    /\ plan' = Some(done.r)
    /\ report' = done.performance
    /\ calls' = done.analysisCalls
    /\ planCalls' = done.calls

GenerateStudyPlan ==
    /\ op = "idle"
    /\ \E out \in PlanOutcomes, days \in DaysAheadChoices :
          \E nowA \in Readings(out.planCourse /\ ReadsClock(out), 0) :
             \E now1 \in Readings(out.planCourse /\ ReadsWindowClock(out), nowA) :
                \E now2 \in Readings(out.planCourse /\ ReadsPlanClock(out, now1, days), now1) :
                   /\ PlanReturns(generate_study_plan(out, nowA, now1, now2, days))
                   /\ clock' =
                         IF ~out.planCourse THEN NoReadings
                         ELSE [analysis |-> IF ReadsClock(out) THEN Some(nowA) ELSE None,
                               window |-> IF ReadsWindowClock(out)
                                          THEN Some(now1) ELSE None,
                               priority |-> IF ReadsPlanClock(out, now1, days)
                                            THEN Some(now2) ELSE None,
                               days |-> Some(days)]
    /\ op' = "generate_study_plan"
    /\ UNCHANGED <<conversations, last_accessed, memClock,
                   gwGrade, gwAssignments, gwSubmissions, gwGroups,
                   classScores, studentScore, assignmentResult>>

Next == AnalyzeCoursePerformance \/ AnalyzeAssignmentPerformance \/ GenerateStudyPlan

Spec == Init /\ [][Next]_vars

----------------------------------------------------------------------------
(* The state machine of the MemoryService: any sequence of calls *)

ConversationIds == 1..(max_conversations + 1)

Requests == {None} \cup {Some(i) : i \in ConversationIds}

MaxTime == expiry_time + 1

Times(from) == {t \in from..(from + 1) : t <= MaxTime}

(* uuid4 gives an id that no stored conversation has *)
Uuids == {i \in ConversationIds : ~DictHas(conversations, i)}

UuidsFor(cid) == IF IsNone(cid) THEN Uuids ELSE {Val(cid)}

CanvasIdle ==
    /\ gwGrade = None
    /\ gwAssignments = <<>>
    /\ gwSubmissions = <<>>
    /\ gwGroups = <<>>
    /\ classScores = <<>>
    /\ studentScore = None
    /\ op = "idle"
    /\ report = None
    /\ plan = None
    /\ assignmentResult = None
    /\ calls = <<>>
    /\ planCalls = <<>>
    /\ clock = NoReadings

canvasVars ==
    <<gwGrade, gwAssignments, gwSubmissions, gwGroups, classScores, studentScore,
      op, report, plan, assignmentResult, calls, planCalls, clock>>

MemoryInit == CanvasIdle /\ MemoryStarts

MemoryReturns(st, now) ==
    /\ conversations' = st.conversations
    /\ last_accessed' = st.last_accessed
    /\ memClock' = now
    /\ UNCHANGED canvasVars

GetMemory ==
    \E cid \in Requests :
        \E uuid \in UuidsFor(cid), now1 \in Times(memClock) :
            \E now2 \in Times(now1) :
                MemoryReturns(get_memory(Stored, cid, uuid, now1, now2), now2)

AddUserMessage ==
    \E cid \in Requests :
        \E uuid \in UuidsFor(cid), now1 \in Times(memClock) :
            \E now2 \in Times(now1) :
                LET st == add_message(Stored, cid, uuid, now1, now2, "human")
                IN  /\ Len(Messages(st, st.id)) <= MaxMessages
                    /\ MemoryReturns(st, now2)

AddAiMessage ==
    \E cid \in Requests :
        \E uuid \in UuidsFor(cid), now1 \in Times(memClock) :
            \E now2 \in Times(now1) :
                LET st == add_message(Stored, cid, uuid, now1, now2, "ai")
                IN  /\ Len(Messages(st, st.id)) <= MaxMessages
                    /\ MemoryReturns(st, now2)

GetMessages ==
    \E cid \in Requests :
        \E uuid \in UuidsFor(cid), now1 \in Times(memClock) :
            \E now2 \in Times(now1) :
                MemoryReturns(get_memory(Stored, cid, uuid, now1, now2), now2)

ClearMemory ==
    \E cid \in Requests :
        \E uuid \in UuidsFor(cid), now1 \in Times(memClock) :
            \E now2 \in Times(now1) :
                MemoryReturns(clear_memory(Stored, cid, uuid, now1, now2),
                              IF ~IsNone(cid) /\ DictHas(conversations, Val(cid))
                              THEN memClock ELSE now2)

DeleteConversation ==
    \E id \in ConversationIds :
        /\ conversations' = delete_conversation(Stored, id).conversations
        /\ last_accessed' = delete_conversation(Stored, id).last_accessed
        /\ UNCHANGED <<memClock, canvasVars>>

GetConversationId ==
    \E memory \in {None} \cup {Some(i) : i \in 1..Len(conversations)} :
        \E uuid \in UuidsFor(None), now \in Times(memClock) :
            MemoryReturns(get_conversation_id(Stored, memory, uuid, now),
                          IF IsNone(memory) THEN now ELSE memClock)

MemoryNext ==
    \/ GetMemory
    \/ AddUserMessage
    \/ AddAiMessage
    \/ GetMessages
    \/ ClearMemory
    \/ DeleteConversation
    \/ GetConversationId

MemorySpec == MemoryInit /\ [][MemoryNext]_vars

----------------------------------------------------------------------------
(* Vocabulary of the properties *)

HasReport == report /= None
R == Val(report)
HasPlan == plan /= None
P == Val(plan)
AR == Val(assignmentResult)

Attempted(log, fetch) == \E i \in 1..Len(log) : log[i].fetch = fetch
CallOk(log, fetch) == \E i \in 1..Len(log) : log[i].fetch = fetch /\ log[i].ok
CallFailed(log, fetch) == \E i \in 1..Len(log) : log[i].fetch = fetch /\ ~log[i].ok

Says(message, text, err) == \E i \in 1..Len(message) : message[i] = <<text, err>>

SecondaryFetches ==
    {"get_course_grades", "get_assignments", "get_student_submissions_for_course",
     "get_assignment_groups"}

FailureText(fetch) ==
    CASE fetch = "get_course_grades" -> "Could not retrieve grade information"
      [] fetch = "get_assignments" -> "Could not retrieve assignment information"
      [] fetch = "get_student_submissions_for_course" ->
            "Could not retrieve submission information"
      [] fetch = "get_assignment_groups" -> "Could not complete detailed analysis"

RECURSIVE ScoreSum(_)
ScoreSum(idx) ==
    IF idx = {} THEN 0
    ELSE LET i == CHOOSE j \in idx : TRUE
         IN  Val(gwSubmissions[i].score) + ScoreSum(idx \ {i})

(* the submissions the analysis counts as graded with a numeric score *)
CountedIdx ==
    {i \in 1..Len(gwSubmissions) :
        gwSubmissions[i].grade /= "" /\ gwSubmissions[i].score /= None}

GroupIdx(g) == {i \in CountedIdx : gwSubmissions[i].gid = Some(g.id)}

AbovePooled(g) ==
    ScoreSum(GroupIdx(g)) * Cardinality(CountedIdx)
        > ScoreSum(CountedIdx) * Cardinality(GroupIdx(g))

DistinctGroupNames ==
    \A i, j \in 1..Len(gwGroups) : i /= j => gwGroups[i].name /= gwGroups[j].name

SomeAwareDue ==
    \E i \in 1..Len(gwAssignments) :
        gwAssignments[i].due_at /= None /\ Val(gwAssignments[i].due_at).aware

ReadingOr(x, default) == IF x = None THEN default ELSE Val(x)

DueAfter(now) ==
    {i \in 1..Len(gwAssignments) :
        gwAssignments[i].due_at /= None /\ Val(gwAssignments[i].due_at).t > now}

----------------------------------------------------------------------------
(* C1: whenever the course fetch succeeds and a secondary fetch raises,    *)
(* analyze_course_performance returns a report without the error flag,     *)
(* with course_id, course_name and the fields of the fetches that          *)
(* succeeded, whose message has the sentence of the failed fetch.          *)
C1_ReportNamesFailure ==
    (HasReport /\ CallOk(calls, "get_course")) =>
        \A f \in SecondaryFetches :
            CallFailed(calls, f) =>
                /\ ~Has(R, "error")
                /\ Has(R, "course_id") /\ Has(R, "course_name")
                /\ Says(R["message"], FailureText(f), ErrText(f))
                /\ CallOk(calls, "get_course_grades") =>
                      Has(R, "current_grade") /\ R["current_grade"] = gwGrade
                /\ CallOk(calls, "get_assignments") =>
                      Has(R, "total_assignments")
                      /\ R["total_assignments"] = Len(gwAssignments)

(* C2: a failed get_course ends either operation in the error outcome,     *)
(* with the failure text in the message, no further gateway call, and no   *)
(* grade, statistics, strengths, weaknesses or upcoming assignments.       *)
DataFields ==
    {"current_grade", "total_assignments", "graded_assignments", "assignments",
     "average_score", "median_score", "score_std_dev", "group_statistics",
     "strengths", "weaknesses", "upcoming_assignments", "upcoming_assignments_count",
     "focus_areas"}

C2_CourseFailureIsFatal ==
    /\ (HasReport /\ CallFailed(calls, "get_course")) =>
          /\ Has(R, "error") /\ R["error"]
          /\ Says(R["message"], "Error analyzing course performance",
                  ErrText("get_course"))
          /\ Len(calls) = 1
          /\ DOMAIN R \cap DataFields = {}
    /\ (HasPlan /\ CallFailed(planCalls, "get_course")) =>
          /\ Has(P, "error") /\ P["error"]
          /\ Says(P["message"], "Error generating study plan", ErrText("get_course"))
          /\ Len(planCalls) = 1 /\ calls = <<>>
          /\ DOMAIN P \cap DataFields = {}

C2_Witness ==
    /\ op = "generate_study_plan"
    /\ HasReport /\ CallFailed(calls, "get_course") /\ CountedIdx /= {}
    /\ ~Has(P, "error")

C4_StrengthsWeaknessesDisjoint ==
    /\ (HasReport /\ Has(R, "strengths")) =>
          Range(R["strengths"]) \cap Range(R["weaknesses"]) = {}
    /\ (HasPlan /\ Has(P, "strengths")) =>
          Range(P["strengths"]) \cap Range(P["weaknesses"]) = {}

C4_Witness ==
    /\ HasPlan /\ Has(P, "strengths") /\ ~DistinctGroupNames
    /\ \E i, j \in 1..Len(gwGroups) :
          /\ GroupIdx(gwGroups[i]) /= {} /\ GroupIdx(gwGroups[j]) /= {}
          /\ AbovePooled(gwGroups[i]) /\ ~AbovePooled(gwGroups[j])
    /\ Len(P["strengths"]) + Len(P["weaknesses"]) = 1

(* C5 as stated: with submissions and groups obtained, a fetched group     *)
(* with a graded score is a strength iff its mean exceeds the pooled mean  *)
(* and a weakness otherwise; a group without one is in neither list.       *)
Classification(groupsConsidered) ==
    (HasReport /\ CallOk(calls, "get_assignment_groups")) =>
        \A k \in groupsConsidered :
            LET g == gwGroups[k]
            IN  IF GroupIdx(g) /= {}
                THEN /\ g.name \in Range(R["strengths"]) <=> AbovePooled(g)
                     /\ g.name \in Range(R["weaknesses"]) <=> ~AbovePooled(g)
                ELSE /\ g.name \notin Range(R["strengths"])
                     /\ g.name \notin Range(R["weaknesses"])

C5_EveryGroupClassified == Classification(1..Len(gwGroups))

(* C5 amended: the same, for the fetched groups whose name no other        *)
(* fetched group carries (group_statistics is keyed by name); a graded     *)
(* score is the numeric score of a submission with a non-empty grade.      *)
C5_UniquelyNamedGroupClassified ==
    Classification({k \in 1..Len(gwGroups) :
                       \A j \in 1..Len(gwGroups) :
                           j /= k => gwGroups[j].name /= gwGroups[k].name})

C5_Witness ==
    /\ HasReport /\ Has(R, "strengths")
    /\ gwGroups = <<Group(1, "Labs", 30), Group(2, "Exams", 70)>>
    /\ Len(gwSubmissions) = 4
    /\ R["average_score"][1] = 75 * R["average_score"][2]
    /\ R["strengths"] = <<"Labs">> /\ R["weaknesses"] = <<"Exams">>

(* C6: in every report, graded_assignments <= total_assignments.           *)
C6_GradedAtMostTotal ==
    (HasReport /\ ~Has(R, "error")) =>
        R["graded_assignments"] <= R["total_assignments"]

(* C7: a field that depends on a failed secondary fetch is absent from     *)
(* the report, never defaulted.                                            *)
C7_FailedFetchFieldsAbsent ==
    (HasReport /\ CallOk(calls, "get_course")) =>
        /\ CallFailed(calls, "get_assignments") => ~Has(R, "total_assignments")
        /\ CallFailed(calls, "get_student_submissions_for_course") =>
              ~Has(R, "graded_assignments")
        /\ CallFailed(calls, "get_assignment_groups") =>
              /\ ~Has(R, "group_statistics")
              /\ ~Has(R, "strengths") /\ ~Has(R, "weaknesses")

(* C8: score_std_dev is reported exactly with 2 or more numeric graded     *)
(* scores, average and median exactly with 1 or more; class_std_dev is     *)
(* null below 2 class scores and class_average, class_median null with     *)
(* none; with 0 or 1 scores nothing is raised.                             *)
ClassCount == Cardinality({i \in 1..Len(classScores) : classScores[i] /= None})

C8_StatisticsNeedEnoughScores ==
    /\ HasReport =>
          LET fetched == CallOk(calls, "get_student_submissions_for_course")
              n == Cardinality(CountedIdx)
          IN  /\ Has(R, "score_std_dev") <=> (fetched /\ n >= 2)
              /\ Has(R, "average_score") <=> (fetched /\ n >= 1)
              /\ Has(R, "median_score") <=> (fetched /\ n >= 1)
              /\ fetched => ~Has(R, "error")
    /\ (assignmentResult /= None /\ CallOk(calls, "get_assignment")) =>
          /\ ~AR.raised
          /\ AR.class_std_dev = None <=> ClassCount < 2
          /\ AR.class_average = None <=> ClassCount = 0
          /\ AR.class_median = None <=> ClassCount = 0

C8_Witness ==
    /\ op = "analyze_course_performance"
    /\ Cardinality(CountedIdx) = 1
    /\ Has(R, "average_score") /\ ~Has(R, "score_std_dev")

WindowIdx ==
    IF clock.window = None THEN {}
    ELSE {i \in 1..Len(gwAssignments) :
             /\ gwAssignments[i].due_at /= None
             /\ Val(clock.window) <= Val(gwAssignments[i].due_at).t
             /\ Val(gwAssignments[i].due_at).t
                   <= Val(clock.window) + Val(clock.days) * TicksPerDay}

FetchedWeight(gid) ==
    IF gid /= None /\ \E j \in 1..Len(gwGroups) : gwGroups[j].id = Val(gid)
    THEN gwGroups[CHOOSE j \in 1..Len(gwGroups) : gwGroups[j].id = Val(gid)].group_weight
    ELSE 0

WholeDaysUntil(a) ==
    LET d == (Val(a.due_at).t - Val(clock.priority)) \div TicksPerDay
    IN  IF d < 0 THEN 0 ELSE d

C10_PriorityFormulaAndOrder ==
    (HasPlan /\ CallOk(planCalls, "get_assignment_groups")) =>
        LET up == P["upcoming_assignments"]
        IN  /\ Len(up) = Cardinality(WindowIdx)
            /\ {up[k].id : k \in 1..Len(up)} = {gwAssignments[i].id : i \in WindowIdx}
            /\ \A k \in 1..Len(up) :
                  LET a == gwAssignments[up[k].id]
                  IN  up[k].priority[1] * (10 * FetchedWeight(a.gid) + 1)
                         = 10 * WholeDaysUntil(a) * up[k].priority[2]
            /\ \A k, l \in 1..Len(up) :
                  k < l => up[k].priority[1] * up[l].priority[2]
                              <= up[l].priority[1] * up[k].priority[2]

C10_Witness ==
    /\ HasPlan /\ CallOk(planCalls, "get_assignment_groups")
    /\ Len(gwAssignments) = 2
    /\ gwAssignments[1].gid = None /\ gwAssignments[2].gid = Some(1)
    /\ gwAssignments[1].due_at = gwAssignments[2].due_at
    /\ Len(P["upcoming_assignments"]) = 2
    /\ P["upcoming_assignments"][1].id = 2
    /\ P["upcoming_assignments"][1].priority = <<20, 501>>
    /\ P["upcoming_assignments"][2].priority = <<20, 1>>

----------------------------------------------------------------------------
(* The plan's list of upcoming assignments *)

Up == P["upcoming_assignments"]

Prioritizes == HasPlan /\ ~Has(P, "error") /\ Attempted(planCalls, "get_assignment_groups")

WeightedPath == Prioritizes /\ CallOk(planCalls, "get_assignment_groups")

FallbackPath == Prioritizes /\ CallFailed(planCalls, "get_assignment_groups")

Listed(i) == \E k \in 1..Len(Up) : Up[k].id = gwAssignments[i].id

ListedBefore(i, j) ==
    \E k, l \in 1..Len(Up) :
        k < l /\ Up[k].id = gwAssignments[i].id /\ Up[l].id = gwAssignments[j].id

DueT(i) == Val(gwAssignments[i].due_at).t

(* C11: on the weighted path, of two upcoming assignments with the same    *)
(* group weight and different due timestamps the one due earlier is        *)
(* listed first.                                                           *)
C11_EarlierDueFirst ==
    WeightedPath =>
        \A i, j \in WindowIdx :
            (FetchedWeight(gwAssignments[i].gid) = FetchedWeight(gwAssignments[j].gid)
                /\ DueT(i) < DueT(j)) => ListedBefore(i, j)

(* C12: on the weighted path, of two upcoming assignments with the same    *)
(* due timestamp and different group weights the one of higher weight is   *)
(* listed first.                                                           *)
C12_HigherWeightFirst ==
    WeightedPath =>
        \A i, j \in WindowIdx :
            (DueT(i) = DueT(j)
                /\ FetchedWeight(gwAssignments[i].gid) > FetchedWeight(gwAssignments[j].gid))
            => ListedBefore(i, j)

C14_FallbackOrderedByDue ==
    (FallbackPath /\ WindowIdx /= {}) =>
        /\ Up /= <<>>
        /\ \A k, l \in 1..Len(Up) :
              k < l => Val(Up[k].due_date).t <= Val(Up[l].due_date).t
        /\ Says(P["message"], "Could not prioritize assignments",
                ErrText("get_assignment_groups"))

(* C15: when get_upcoming_assignments returns, upcoming_assignments has    *)
(* exactly the assignments of the window, each once, on the weighted path  *)
(* and on the fallback path.                                               *)
C15_WindowListedOnce ==
    Prioritizes =>
        /\ Len(Up) = Cardinality(WindowIdx)
        /\ {Up[k].id : k \in 1..Len(Up)} = {gwAssignments[i].id : i \in WindowIdx}

C15_Witness ==
    /\ FallbackPath
    /\ Cardinality(WindowIdx) = 2
    /\ Len(Up) = 2 /\ Up[1].id /= Up[2].id

----------------------------------------------------------------------------
(* The plan's focus areas and recommendations *)

GoodPlan == HasPlan /\ ~Has(P, "error")

Areas == P["focus_areas"]

Recs == P["recommendations"]

(* C16: in every non-error plan focus_areas has one entry per weakness,    *)
(* same names in the same order.                                           *)
C16_FocusAreaPerWeakness ==
    GoodPlan =>
        /\ Len(Areas) = Len(P["weaknesses"])
        /\ \A i \in 1..Len(Areas) : Areas[i].area = P["weaknesses"][i]

(* C17: in every non-error plan with an upcoming assignment or a focus     *)
(* area, the recommendations are the assignment_prep entry of priority     *)
(* High for upcoming_assignments[0], if that list is non-empty, followed   *)
(* by one skill_improvement entry per focus area, in order, with the       *)
(* area's priority; without upcoming assignments there is no               *)
(* assignment_prep entry.                                                  *)
C17_RecommendationPrecedence ==
    GoodPlan =>
        LET first == IF Up /= <<>> THEN 1 ELSE 0
        IN  /\ (first + Len(Areas) > 0) => Len(Recs) = first + Len(Areas)
            /\ Up /= <<>> =>
                  /\ Recs[1].type = "assignment_prep"
                  /\ Recs[1].priority = "High"
                  /\ Recs[1].description
                        = <<"Focus on preparing for", Up[1].name, Up[1].due_date>>
            /\ (first + Len(Areas) > 0) =>
                  \A i \in 1..Len(Areas) :
                      /\ Recs[first + i].type = "skill_improvement"
                      /\ Recs[first + i].description = <<"Improve skills in", Areas[i].area>>
                      /\ Recs[first + i].priority = Areas[i].priority
            /\ Up = <<>> =>
                  \A k \in 1..Len(Recs) : Recs[k].type /= "assignment_prep"

C17_Witness ==
    /\ GoodPlan
    /\ Len(Up) = 1 /\ Len(Areas) = 2 /\ Len(Recs) = 3
    /\ Areas[1].priority = "High" /\ Areas[2].priority = "Medium"
    /\ Recs[2].priority = "High" /\ Recs[3].priority = "Medium"

(* C18: the generic recommendations are there exactly when                 *)
(* upcoming_assignments and focus_areas are both empty, and then they are  *)
(* the two of the plan's grade case, in order; when every secondary fetch  *)
(* fails, strengths and weaknesses are empty and the two no-grade          *)
(* recommendations are given.                                              *)
IsGeneric(rec, text, priority) ==
    rec = [type |-> "general_improvement", description |-> <<text>>, priority |-> priority]

NoGradeRecs ==
    /\ Len(Recs) = 2
    /\ IsGeneric(Recs[1], "Review your course syllabus and upcoming assignments", "High")
    /\ IsGeneric(Recs[2], "Create a study schedule for this course", "Medium")

GradeRecs ==
    /\ Len(Recs) = 2
    /\ IsGeneric(Recs[1], "Review your current course materials and notes", "Medium")
    /\ IsGeneric(Recs[2], "Meet with your instructor during office hours to discuss improvement strategies", "High")

EverySecondaryFetchFails ==
    /\ CallFailed(calls, "get_course_grades")
    /\ CallFailed(calls, "get_assignments")
    /\ CallFailed(calls, "get_student_submissions_for_course")
    /\ CallFailed(planCalls, "get_assignments")

C18_GenericRecommendations ==
    GoodPlan =>
        /\ (\E k \in 1..Len(Recs) : Recs[k].type = "general_improvement")
              <=> (Up = <<>> /\ Areas = <<>>)
        /\ (Up = <<>> /\ Areas = <<>>) =>
              IF P["current_grade"] = None THEN NoGradeRecs ELSE GradeRecs
        /\ EverySecondaryFetchFails =>
              P["strengths"] = <<>> /\ P["weaknesses"] = <<>> /\ NoGradeRecs

C18_Witness ==
    /\ GoodPlan /\ EverySecondaryFetchFails
    /\ gwGrade /= None /\ CountedIdx /= {} /\ SomeDue
    /\ NoGradeRecs

(* C19: the message of a non-error plan has, for every secondary fetch     *)
(* that failed during the performance analysis, the sentence recording     *)
(* that failure.                                                           *)
C19_PlanMessageHasNarrative ==
    GoodPlan =>
        \A f \in SecondaryFetches :
            CallFailed(calls, f) => Says(P["message"], FailureText(f), ErrText(f))

(* C20: with a numeric student score x and one or more numeric class       *)
(* scores, percentile = 100 * (class scores strictly below x) / (class     *)
(* scores); it lies in [0, 100] and does not decrease when x grows.        *)
ClassIdx == {i \in 1..Len(classScores) : classScores[i] /= None}

StrictlyBelow(x) == Cardinality({i \in ClassIdx : Val(classScores[i]) < x})

ScoreRange == 0..100

C20_PercentileFormula ==
    (assignmentResult /= None /\ CallOk(calls, "get_assignment")
        /\ studentScore /= None /\ ClassIdx /= {}) =>
        LET x == Val(studentScore)
            p == Val(AR.percentile)
        IN  /\ AR.percentile /= None
            /\ p[2] > 0
            /\ p[1] * Cardinality(ClassIdx) = 100 * StrictlyBelow(x) * p[2]
            /\ 0 <= p[1] /\ p[1] <= 100 * p[2]
            /\ \A y \in ScoreRange :
                  LET q == Val(Percentile(PresentScores(classScores), Some(y)))
                  IN  /\ y >= x => p[1] * q[2] <= q[1] * p[2]
                      /\ y <= x => q[1] * p[2] <= p[1] * q[2]

C20_Witness ==
    /\ assignmentResult /= None /\ CallOk(calls, "get_assignment")
    /\ studentScore = Some(90)
    /\ classScores = <<Some(60), Some(90)>>
    /\ AR.percentile = Some(<<100, 2>>)

----------------------------------------------------------------------------
(* C21: with the submissions fetched, the graded submissions are exactly   *)
(* the fetched submissions with a numeric score: graded_assignments is     *)
(* their number and the average is over exactly their scores.              *)
ScoredIdx == {i \in 1..Len(gwSubmissions) : gwSubmissions[i].score /= None}

C21_GradedAreTheScored ==
    (HasReport /\ CallOk(calls, "get_student_submissions_for_course")) =>
        /\ R["graded_assignments"] = Cardinality(ScoredIdx)
        /\ Has(R, "average_score") <=> ScoredIdx /= {}
        /\ Has(R, "average_score") =>
              R["average_score"][1] * Cardinality(ScoredIdx)
                 = ScoreSum(ScoredIdx) * R["average_score"][2]

(* C22: with timezone-aware due timestamps fetched, get_upcoming_assignments *)
(* returns without raising the assignments due within [now, now + days],   *)
(* and these are the plan's upcoming_assignments.                          *)
C22_AwareDueDatesAreWindowed ==
    (GoodPlan /\ CallOk(planCalls, "get_assignments") /\ SomeAwareDue) =>
        /\ ~Says(P["message"], "Could not retrieve upcoming assignments", NaiveAwareError)
        /\ {Up[k].id : k \in 1..Len(Up)} = {gwAssignments[i].id : i \in WindowIdx}
        /\ \A k \in 1..Len(Up) : Up[k].due_date /= None

(* C23 as stated: on the weighted path each focus area's count is the      *)
(* number of entries of upcoming_assignments whose group name is the       *)
(* area's name, and its priority is High exactly when the count is above 0. *)
EntriesNamed(name, withGroupOnly) ==
    Cardinality({k \in 1..Len(Up) :
                    /\ Up[k].group = name
                    /\ withGroupOnly => gwAssignments[Up[k].id].gid /= None})

FocusCounts(withGroupOnly) ==
    WeightedPath =>
        \A i \in 1..Len(Areas) :
            /\ Areas[i].upcoming_assignments = EntriesNamed(Areas[i].area, withGroupOnly)
            /\ Areas[i].priority
                  = IF Areas[i].upcoming_assignments > 0 THEN "High" ELSE "Medium"

C23_FocusCountsByGroupName == FocusCounts(FALSE)

(* C23 amended: the count is over the entries that have an assignment      *)
(* group id; an entry without one is labelled "Other" in the list and is   *)
(* not counted for a focus area named "Other".                             *)
C23_FocusCountsOfGroupedEntries == FocusCounts(TRUE)

C23_Witness ==
    /\ WeightedPath
    /\ Len(Areas) = 1 /\ Areas[1].area = "Other"
    /\ Len(Up) = 2 /\ Up[1].group = "Other" /\ Up[2].group = "Other"
    /\ \E k \in 1..2 : gwAssignments[Up[k].id].gid = None
    /\ Areas[1].upcoming_assignments = 1 /\ Areas[1].priority = "High"

----------------------------------------------------------------------------
(* C24: two runs of analyze_course_performance on the same gateway data    *)
(* that differ in the outcome of one secondary fetch agree on the fields   *)
(* derived from the other fetches, which are present in both when their    *)
(* fetch succeeded.                                                        *)
RunOutcomes ==
    [planCourse |-> TRUE, upcoming |-> TRUE, planGroups |-> TRUE,
     course |-> ~CallFailed(calls, "get_course"),
     grades |-> ~CallFailed(calls, "get_course_grades"),
     assignments |-> ~CallFailed(calls, "get_assignments"),
     submissions |-> ~CallFailed(calls, "get_student_submissions_for_course"),
     groups |-> ~CallFailed(calls, "get_assignment_groups")]

SecondaryOutcomes == {"grades", "assignments", "submissions", "groups"}

DerivedFields(f) ==
    CASE f = "grades" -> {"current_grade"}
      [] f = "assignments" -> {"total_assignments"}
      [] f = "submissions" -> {"average_score", "median_score"}
      [] f = "groups" -> {}

AlwaysDerived == {"current_grade", "total_assignments"}

SameField(r1, r2, field) ==
    /\ Has(r1, field) <=> Has(r2, field)
    /\ Has(r1, field) => r1[field] = r2[field]

C24_OtherFieldsUnaffected ==
    (HasReport /\ CallOk(calls, "get_course")) =>
        \A f \in SecondaryOutcomes, now \in Elapsed :
            LET other == analyze_course_performance(
                             [RunOutcomes EXCEPT ![f] = ~@], now).r
            IN  \A g \in SecondaryOutcomes \ {f} :
                    RunOutcomes[g] =>
                        \A field \in DerivedFields(g) :
                            /\ SameField(R, other, field)
                            /\ field \in AlwaysDerived =>
                                  Has(R, field) /\ Has(other, field)

----------------------------------------------------------------------------
(* C25: after any sequence of calls the MemoryService stores at most       *)
(* max_conversations conversations.                                        *)
C25_AtMostMaxConversations == Len(conversations) <= max_conversations

----------------------------------------------------------------------------
(* C26: analyze_course_performance and generate_study_plan always return:  *)
(* a report or plan, or a result with the error flag; no exception reaches *)
(* the caller, also when a handler raises.                                 *)
IsReturned(r) == ~Has(r, "exception") /\ Has(r, "course_id") /\ Has(r, "message")

C26_NoExceptionEscapes ==
    /\ op = "analyze_course_performance" =>
          /\ HasReport /\ IsReturned(R)
          /\ Has(R, "error") \/ Has(R, "graded_assignments")
    /\ op = "generate_study_plan" =>
          /\ HasPlan /\ IsReturned(P)
          /\ Has(P, "error") \/ Has(P, "upcoming_assignments")
          /\ HasReport => IsReturned(R)

C26_Witness ==
    /\ op = "analyze_course_performance"
    /\ CallOk(calls, "get_assignments")
    /\ CallFailed(calls, "get_student_submissions_for_course")
    /\ SomeAwareDue
    /\ Has(R, "error")
    /\ Says(R["message"], "Error analyzing course performance", NaiveAwareError)

(* C27: every result of generate_study_plan, plan or error result, has a   *)
(* non-empty recommendations list.                                         *)
C27_RecommendationsNonEmpty ==
    HasPlan => Has(P, "recommendations") /\ P["recommendations"] /= <<>>

C27_Witness ==
    /\ HasPlan /\ Has(P, "error")
    /\ Len(P["recommendations"]) = 2
    /\ P["recommendations"][1].type = "error_recovery"

(* C28: when group_statistics is non-empty, the fetched group names are    *)
(* distinct and every graded submission with a numeric score is of a       *)
(* fetched group, weaknesses is non-empty.                                 *)
AllCountedInGroups ==
    \A i \in CountedIdx :
        \E j \in 1..Len(gwGroups) : gwSubmissions[i].gid = Some(gwGroups[j].id)

C28_SomeWeakness ==
    (HasReport /\ Has(R, "group_statistics") /\ R["group_statistics"] /= <<>>
        /\ DistinctGroupNames /\ AllCountedInGroups) =>
        R["weaknesses"] /= <<>>

C28_Witness ==
    /\ HasReport /\ Has(R, "group_statistics")
    /\ Len(gwGroups) = 1 /\ Cardinality(CountedIdx) = 2 /\ AllCountedInGroups
    /\ \E i, j \in CountedIdx : gwSubmissions[i].score /= gwSubmissions[j].score
    /\ R["strengths"] = <<>>
    /\ R["weaknesses"] = <<gwGroups[1].name>>

(* C29: on the weighted path every entry of upcoming_assignments has a     *)
(* finite priority that is 0 or more, and the list is non-decreasing in    *)
(* priority; the infinite priority is never assigned.                      *)
C29_FinitePriorities ==
    WeightedPath =>
        /\ \A k \in 1..Len(Up) :
              /\ Up[k].priority /= Infinity
              /\ Up[k].priority[2] > 0 /\ Up[k].priority[1] >= 0
              /\ Up[k].due_date /= None
        /\ \A k \in 1..(Len(Up) - 1) :
              Up[k].priority[1] * Up[k + 1].priority[2]
                 <= Up[k + 1].priority[1] * Up[k].priority[2]

C29_Witness ==
    /\ WeightedPath
    /\ \E i \in 1..Len(gwAssignments) : gwAssignments[i].due_at = None
    /\ Len(gwAssignments) = 2 /\ Len(Up) = 1
    /\ Up[1].due_date /= None
    /\ Up[1].priority = <<10 * TicksPerDay, 1>>

(* C30: the message of a non-error plan has "Performance analysis          *)
(* completed" and never "Could not analyze performance", whatever the      *)
(* analysis fetches do.                                                    *)
C30_AnalysisAlwaysCompletes ==
    GoodPlan =>
        /\ Says(P["message"], "Performance analysis completed", "")
        /\ \A i \in 1..Len(P["message"]) :
              P["message"][i][1] /= "Could not analyze performance"

C30_Witness ==
    /\ GoodPlan
    /\ CallFailed(calls, "get_course")
    /\ Has(R, "error")
    /\ Says(P["message"], "Performance analysis completed", "")
    /\ P["weaknesses"] = <<>>

====
